---- MODULE Spec2Model ----
(***************************************************************************)
(* SpaceX launch tracker: the local SQLite mirror (tables launches and     *)
(* cache_metadata), the freshness check, the sync fetch_launches, and the  *)
(* read operations get_launch_statistics and filter_launches.              *)
(*                                                                         *)
(* Time is counted in whole hours.  A table is a bag of rows: SQLite keeps *)
(* one row per non-NULL primary key, and any number of rows whose TEXT     *)
(* PRIMARY KEY is NULL.                                                    *)
(***************************************************************************)
EXTENDS Bags, FiniteSets, Integers, Sequences, TLC

VARIABLES
    launches,        \* table launches: a bag of rows
    cache_metadata,  \* table cache_metadata: a set of rows, one per key
    now,             \* datetime.now(), in hours
    dbLocked,        \* a leaked connection still holds an open write transaction
    env,             \* what the remote API and the local disk answer to a call
    call,            \* the last operation: its arguments, what it did and returned
    inflight         \* the frames of the fetch_launches calls running concurrently

vars == <<launches, cache_metadata, now, dbLocked, env, call, inflight>>

-----------------------------------------------------------------------------
(* Values *)

NULL == "NULL"        \* SQL NULL, JSON null, Python None (text-valued places)

\* A JSON object is a function from its keys; a missing key is not in DOMAIN.
Has(obj, key) == key \in DOMAIN obj

\* dict.get(key): None when the key is missing.
Get(obj, key) == IF Has(obj, key) THEN obj[key] ELSE NULL

-----------------------------------------------------------------------------
(* Bounds *)

MaxBatch == 2         \* records in one remote launch collection
MaxRows == 4          \* rows the launches table may hold
MaxClock == 25        \* last hour the clock reaches

\* max_age_hours: int = 24
DefaultMaxAgeHours == 24

\* The clock jumps by exactly the maximum age, or by one hour more.
TickSteps == {DefaultMaxAgeHours, DefaultMaxAgeHours + 1}

-----------------------------------------------------------------------------
(* The remote collections the model draws from *)

LA == [id |-> "A", name |-> "FalconSat", date_utc |-> "2006-03-24",
       date_unix |-> 1, success |-> "false", rocket |-> "r1", launchpad |-> "p1"]

\* the same launch, re-published with other field values
LA2 == [id |-> "A", name |-> "FalconSat v2", date_utc |-> "2006-03-25",
        date_unix |-> 1, success |-> "true", rocket |-> "r2", launchpad |-> "p2"]

\* success key missing
LB == [id |-> "B", name |-> "Demo", date_utc |-> "2007-03-21",
       date_unix |-> 2, rocket |-> "r2", launchpad |-> "p1"]

\* id is JSON null
LNullId == [id |-> NULL, name |-> "Ghost", date_utc |-> "2007-03-21",
            date_unix |-> 2, success |-> "true", rocket |-> "r1", launchpad |-> "p1"]

\* id key missing
LNoId == [name |-> "NoId", date_utc |-> "2007-03-21",
          date_unix |-> 2, success |-> "true", rocket |-> "r1", launchpad |-> "p1"]

\* date_unix key missing
LNoDate == [id |-> "B", name |-> "NoDate", date_utc |-> "2007-03-21",
            success |-> "true", rocket |-> "r1", launchpad |-> "p1"]

\* name is JSON null: the NOT NULL constraint of the schema rejects the row
LNullName == [id |-> "B", name |-> NULL, date_utc |-> "2007-03-21",
              date_unix |-> 2, success |-> "true", rocket |-> "r1", launchpad |-> "p1"]

WellFormedLaunches == {LA, LA2, LB}

\* records the insert loop takes without an exception
AcceptedLaunches == WellFormedLaunches \cup {LNullId}

\* records at which the insert loop raises
RejectedLaunches == {LNoId, LNoDate, LNullName}

SeqsUpTo(S, n) == UNION {[1..k -> S] : k \in 0..n}

\* The loop stops at the first record that raises, so the collections are the
\* sequences of accepted records, those ending in a rejected one, and a rejected
\* record followed by one the loop never reaches.
Batches ==
    SeqsUpTo(AcceptedLaunches, MaxBatch)
        \cup {Append(b, m) : b \in SeqsUpTo(AcceptedLaunches, MaxBatch - 1),
                              m \in RejectedLaunches}
        \cup {<<m, LA>> : m \in RejectedLaunches}

RocketsV1 == <<[id |-> "r1", name |-> "Falcon 9"], [id |-> "r2", name |-> "Falcon Heavy"]>>
\* r1 renamed, r2 withdrawn
RocketsV2 == <<[id |-> "r1", name |-> "Falcon 1"]>>
PadsV1 == <<[id |-> "p1", name |-> "KSC"], [id |-> "p2", name |-> "VAFB"]>>

-----------------------------------------------------------------------------
(* HTTP responses: requests.get either raises (timeout) or returns a       *)
(* response with a status and a body that parses as JSON or does not.      *)

Timeout == [kind |-> "timeout"]
Http(status, parses, data) ==
    [kind |-> "http", status |-> status, parses |-> parses, data |-> data]

\* requests.get(url, timeout=10) raises requests.Timeout
GetRaises(resp) == resp.kind = "timeout"

\* response.raise_for_status() raises HTTPError on a 4xx or 5xx status
RaiseForStatus(resp) == resp.status >= 400 /\ resp.status < 600

\* response.json() raises when the body is not JSON
JsonRaises(resp) == ~resp.parses

\* {r['id']: r['name'] for r in response.json()} raises KeyError
RefsRaise(refs) == \E i \in DOMAIN refs : ~Has(refs[i], "id") \/ ~Has(refs[i], "name")

\* {r['id']: r['name'] for r in response.json()}: a later entry wins
RefDict(refs) ==
    [k \in {refs[i].id : i \in DOMAIN refs} |->
        refs[CHOOSE i \in DOMAIN refs :
                /\ refs[i].id = k
                /\ \A j \in DOMAIN refs : refs[j].id = k => j <= i].name]

-----------------------------------------------------------------------------
(* Table launches *)

\* launch['id'], launch['name'], launch['date_utc'], launch['date_unix']
RequiredKeys == {"id", "name", "date_utc", "date_unix"}

\* 1 if launch.get('success') else 0: a missing flag is stored as a failure
SuccessColumnTwoValued(raw) == IF raw = "true" THEN "1" ELSE "0"

\* 1 if launch.get('success') else 0 if launch.get('success') is False else None
\* (the INTEGER column is written "1", "0" or NULL)
SuccessColumn(raw) ==
    IF raw = "true" THEN "1" ELSE IF raw = "false" THEN "0" ELSE NULL

\* The tuple bound to INSERT OR REPLACE INTO launches VALUES (...), without the
\* pass-through columns details, crew, payloads, failures, links and the audit
\* stamp fetched_at, which no operation reads back.
MakeRow(launch, rockets, launchpads) ==
    [id |-> launch.id,
     name |-> launch.name,
     date_utc |-> launch.date_utc,
     date_unix |-> launch.date_unix,
     success |-> SuccessColumn(Get(launch, "success")),
     rocket_id |-> Get(launch, "rocket"),
     rocket_name |-> Get(rockets, Get(launch, "rocket")),
     launchpad_id |-> Get(launch, "launchpad"),
     launchpad_name |-> Get(launchpads, Get(launch, "launchpad"))]

\* name TEXT NOT NULL, date_utc TEXT NOT NULL (date_unix is an integer in every
\* record of the catalogue); id TEXT PRIMARY KEY does not imply NOT NULL in SQLite
NotNullViolated(row) == row.name = NULL \/ row.date_utc = NULL

EmptyTable == EmptyBag

\* a table without a primary key: the row is added next to the one it should replace
InsertKeepingBoth(table, row) == table (+) SetToBag({row})

\* the table is cleared before the row is written
InsertIntoCleared(table, row) == SetToBag({row})

\* INSERT OR REPLACE: the row with the same primary key is deleted first; a NULL
\* key conflicts with no row
InsertOrReplace(table, row) ==
    LET kept == {r \in BagToSet(table) : row.id = NULL \/ r.id # row.id}
    IN  [r \in kept |-> table[r]] (+) SetToBag({row})

\* for launch in launches: cursor.execute(INSERT OR REPLACE ...), from record i.
\* error: the exception that ends the loop; table: the connection's uncommitted
\* view; began: the connection opened a write transaction.  blocked: another
\* connection holds the write lock, so the first execute raises "database is locked".
RECURSIVE ExecuteBatch(_, _, _, _, _, _)
ExecuteBatch(table, batch, i, rockets, launchpads, blocked) ==
    IF i > Len(batch)
    THEN [error |-> "none", table |-> table, began |-> i > 1]
    ELSE IF \E k \in RequiredKeys : ~Has(batch[i], k)
    THEN [error |-> "KeyError", table |-> table, began |-> i > 1]
    ELSE IF blocked
    THEN [error |-> "sqlite3.OperationalError", table |-> table, began |-> FALSE]
    ELSE IF NotNullViolated(MakeRow(batch[i], rockets, launchpads))
    THEN [error |-> "sqlite3.IntegrityError", table |-> table, began |-> TRUE]
    ELSE ExecuteBatch(InsertOrReplace(table, MakeRow(batch[i], rockets, launchpads)),
                      batch, i + 1, rockets, launchpads, blocked)

-----------------------------------------------------------------------------
(* Table cache_metadata *)

MetaRows(meta, cache_key) == {r \in meta : r.key = cache_key}

\* a cache as old as the maximum age is due already
should_refresh_cache_at_max_age(meta, cache_key, max_age_hours, clock) ==
    IF MetaRows(meta, cache_key) = {}
    THEN TRUE
    ELSE clock - (CHOOSE r \in MetaRows(meta, cache_key) : TRUE).last_updated
            >= max_age_hours

\* _should_refresh_cache(cache_key, max_age_hours)
should_refresh_cache(meta, cache_key, max_age_hours, clock) ==
    IF MetaRows(meta, cache_key) = {}
    THEN TRUE
    ELSE clock - (CHOOSE r \in MetaRows(meta, cache_key) : TRUE).last_updated
            > max_age_hours

\* _update_cache_metadata(cache_key): INSERT OR REPLACE INTO cache_metadata
update_cache_metadata(meta, cache_key, clock) ==
    {r \in meta : r.key # cache_key}
        \cup {[key |-> cache_key, last_updated |-> clock, data |-> NULL]}

\* get_cache_last_updated(cache_key): None, or the stamp formatted to the minute
\* (whole hours format to distinct strings, so the stamp itself stands for it)
get_cache_last_updated(meta, cache_key) ==
    IF MetaRows(meta, cache_key) = {}
    THEN <<>>
    ELSE <<(CHOOSE r \in MetaRows(meta, cache_key) : TRUE).last_updated>>

-----------------------------------------------------------------------------
(* The environment of a call: the answers of the three endpoints and the   *)
(* state of the local disk.  It drifts, then settles on one of Envs; calls *)
(* are made while it is settled.                                           *)

Env(l, r, p, s) ==
    [settled |-> TRUE, launches |-> l, rockets |-> r, launchpads |-> p, storage |-> s]
Unsettled == [settled |-> FALSE]

Ok(data) == Http(200, TRUE, data)

\* the three fetch failures: timeout, non-2xx status, malformed body
Faulty(data) == {Timeout, Http(500, TRUE, data), Http(200, FALSE, <<>>)}

\* every batch of the catalogue against healthy reference endpoints
NominalEnvs == {Env(Ok(b), Ok(RocketsV1), Ok(PadsV1), "ok") : b \in Batches}

FewBatches == {<<>>, <<LA>>, <<LA2, LB>>}

\* the rocket collection changed
RenamedEnvs == {Env(Ok(b), Ok(RocketsV2), Ok(PadsV1), "ok") : b \in FewBatches}

\* each endpoint healthy or failing, independently of the others
NetworkEnvs ==
    {Env(l, r, p, "ok") : l \in {Ok(<<LA2, LB>>)} \cup Faulty(<<LA2, LB>>),
                          r \in {Ok(RocketsV1)} \cup Faulty(RocketsV1),
                          p \in {Ok(PadsV1)} \cup Faulty(PadsV1)}

\* the local database cannot be reached at all, or fails once the batch is committed
StorageEnvs ==
    {Env(Ok(b), Ok(RocketsV1), Ok(PadsV1), s) :
        b \in FewBatches, s \in {"unavailable", "stamp_fails"}}

Envs == NominalEnvs \cup RenamedEnvs \cup NetworkEnvs \cup StorageEnvs

-----------------------------------------------------------------------------
(* fetch_launches *)

NoCall == [op |-> "none"]

\* no concurrent call is running
NoFrames == <<>>

\* force_refresh is not consulted
FreshnessCheckIgnoresForce(force_refresh) ==
    IF env.storage = "unavailable" THEN "raised"
    ELSE IF should_refresh_cache(cache_metadata, "launches", DefaultMaxAgeHours, now)
    THEN "due" ELSE "fresh"

\* line 140: what the freshness check does when it is evaluated
FreshnessCheck(force_refresh) ==
    IF force_refresh THEN "not_checked"
    ELSE IF env.storage = "unavailable" THEN "raised"
    ELSE IF should_refresh_cache(cache_metadata, "launches", DefaultMaxAgeHours, now)
    THEN "due" ELSE "fresh"

\* lines 146-148: requests.get, raise_for_status, json
LaunchesFetchRaises(resp) == GetRaises(resp) \/ RaiseForStatus(resp) \/ JsonRaises(resp)

\* lines 157-158 and 161-162: requests.get, json, the dict comprehension
ReferenceFetchRaises(resp) == GetRaises(resp) \/ JsonRaises(resp) \/ RefsRaise(resp.data)

\* the rows executed before the exception are committed
VisibleAfterAbortPartial(before, w) == w.table

\* lines 197-203: the loop raised, so commit and close are skipped; the dropped
\* connection never commits, and what other connections see is the table as it
\* was before the call
VisibleAfterAbort(before, w) == before

\* lines 197-203: the dropped connection keeps its write transaction open
LockAfterAbort(locked, w) == locked \/ w.began

\* lines 193 and 102-111: the stamp goes through a second connection
StampRaises(locked) == locked \/ env.storage = "stamp_fails"

\* The body of fetch_launches(force_refresh) run in the current state:
\* returned/raised, the value returned, the exception met and where, the GET
\* requests issued, and the tables and lock it leaves.
SyncAttempt(force_refresh) ==
    LET left(outcome, result, error, phase, requests) ==
            [outcome |-> outcome, result |-> result, error |-> error,
             phase |-> phase, requests |-> requests, launches |-> launches,
             cache_metadata |-> cache_metadata, dbLocked |-> dbLocked]
    IN
    \* line 140 is outside the try block
    IF FreshnessCheck(force_refresh) = "raised"
    THEN left("raised", FALSE, "sqlite3.OperationalError", "check", 0)
    ELSE IF FreshnessCheck(force_refresh) = "fresh"
    THEN left("returned", TRUE, "none", "check", 0)
    ELSE IF LaunchesFetchRaises(env.launches)
    THEN left("returned", FALSE, "requests.RequestException", "fetch", 1)
    ELSE IF ReferenceFetchRaises(env.rockets)
    THEN left("returned", FALSE, "requests.RequestException", "fetch", 2)
    ELSE IF ReferenceFetchRaises(env.launchpads)
    THEN left("returned", FALSE, "requests.RequestException", "fetch", 3)
    \* lines 164-165
    ELSE IF env.storage = "unavailable"
    THEN left("returned", FALSE, "sqlite3.OperationalError", "write", 3)
    ELSE
    LET w == ExecuteBatch(launches, env.launches.data, 1,
                          RefDict(env.rockets.data), RefDict(env.launchpads.data),
                          dbLocked)
    IN
    \* lines 167-188 raised
    IF w.error # "none"
    THEN [left("returned", FALSE, w.error, "write", 3) EXCEPT
             !.launches = VisibleAfterAbort(launches, w),
             !.dbLocked = LockAfterAbort(dbLocked, w)]
    \* lines 190-193: commit, then the stamp
    ELSE IF StampRaises(dbLocked)
    THEN [left("returned", FALSE, "sqlite3.OperationalError", "stamp", 3) EXCEPT
             !.launches = w.table]
    ELSE [outcome |-> "returned", result |-> TRUE, error |-> "none",
          phase |-> "done", requests |-> 3, launches |-> w.table,
          cache_metadata |-> update_cache_metadata(cache_metadata, "launches", now),
          dbLocked |-> dbLocked]

\* the failure paths stamp as well (the stamp moved into a finally clause)
FetchOutcomeStampsOnFailure(force_refresh) ==
    IF SyncAttempt(force_refresh).requests > 0
    THEN [SyncAttempt(force_refresh) EXCEPT
             !.cache_metadata = update_cache_metadata(cache_metadata, "launches", now)]
    ELSE SyncAttempt(force_refresh)

\* What one call of fetch_launches(force_refresh) leaves behind and returns
FetchOutcome(force_refresh) == SyncAttempt(force_refresh)

\* the call before this one was due and returned False
FailedDueCall(c) ==
    /\ c.op = "fetch_launches"
    /\ c.was_due
    /\ c.outcome = "returned"
    /\ c.result = FALSE

fetch_launches(force_refresh) ==
    /\ env.settled
    /\ BagCardinality(FetchOutcome(force_refresh).launches) <= MaxRows
    /\ launches' = FetchOutcome(force_refresh).launches
    /\ cache_metadata' = FetchOutcome(force_refresh).cache_metadata
    /\ dbLocked' = FetchOutcome(force_refresh).dbLocked
    /\ call' = [op |-> "fetch_launches",
                force_refresh |-> force_refresh,
                freshness |-> FreshnessCheck(force_refresh),
                was_due |-> should_refresh_cache(cache_metadata, "launches",
                                                 DefaultMaxAgeHours, now),
                retry |-> FailedDueCall(call),
                was_empty |-> BagToSet(launches) = {},
                outcome |-> FetchOutcome(force_refresh).outcome,
                result |-> FetchOutcome(force_refresh).result,
                error |-> FetchOutcome(force_refresh).error,
                phase |-> FetchOutcome(force_refresh).phase,
                requests |-> FetchOutcome(force_refresh).requests]
    /\ UNCHANGED <<now, env, inflight>>

-----------------------------------------------------------------------------
(* The world around the calls *)

\* time passes
Tick ==
    /\ \E d \in TickSteps :
        /\ now + d <= MaxClock
        /\ now' = now + d
    /\ UNCHANGED <<launches, cache_metadata, dbLocked, env, call, inflight>>

\* the garbage collector frees the leaked connection: its transaction rolls back
CollectGarbage ==
    /\ dbLocked
    /\ dbLocked' = FALSE
    /\ UNCHANGED <<launches, cache_metadata, now, env, call, inflight>>

RemoteDrifts ==
    /\ env.settled
    /\ env' = Unsettled
    /\ call' = NoCall
    /\ UNCHANGED <<launches, cache_metadata, now, dbLocked, inflight>>

RemoteSettles ==
    /\ ~env.settled
    /\ env' \in Envs
    /\ call' = NoCall
    /\ UNCHANGED <<launches, cache_metadata, now, dbLocked, inflight>>

\* SpaceXTracker(db_path) on a new database file
Init ==
    /\ launches = EmptyTable
    /\ cache_metadata = {}
    /\ now = 0
    /\ dbLocked = FALSE
    /\ env = Unsettled
    /\ call = NoCall
    /\ inflight = NoFrames

Next ==
    \/ \E force_refresh \in BOOLEAN : fetch_launches(force_refresh)
    \/ Tick
    \/ CollectGarbage
    \/ RemoteDrifts
    \/ RemoteSettles

Spec == Init /\ [][Next]_vars

-----------------------------------------------------------------------------
(* Read operations *)

\* Optional[int]: None is <<>>, the integer n is <<n>>
None == <<>>
Some(n) == <<n>>

\* Python truth of an Optional[int]: None and 0 are false
TruthyInt(x) == x # None /\ x[1] # 0

\* Python truth of an Optional[str]: None and "" are false
TruthyStr(x) == x # NULL /\ x # ""

\* the rows of a table that are in keep, with their multiplicity
SelectWhere(table, keep) ==
    [r \in BagToSet(table) \cap keep |-> table[r]]

\* CASE WHEN success = 1 THEN 'Success' WHEN success = 0 THEN 'Failed' ELSE 'Pending'
StatusText(row) ==
    IF row.success = "1" THEN "Success"
    ELSE IF row.success = "0" THEN "Failed" ELSE "Pending"

\* app.py lines 64-88: the WHERE clause built from the five filters, on one row
FilterWhere(row, start_date, end_date, rocket, status, launch_site) ==
    /\ TruthyInt(start_date) => row.date_unix >= start_date[1]
    /\ TruthyInt(end_date) => row.date_unix <= end_date[1]
    /\ (TruthyStr(rocket) /\ rocket # "All")
        => (row.rocket_name # NULL /\ row.rocket_name = rocket)
    /\ (TruthyStr(status) /\ status # "All")
        => /\ status = "Success" => row.success = "1"
           /\ status = "Failed" => row.success = "0"
           /\ status = "Pending" => row.success = NULL
    /\ (TruthyStr(launch_site) /\ launch_site # "All")
        => (row.launchpad_name # NULL /\ row.launchpad_name = launch_site)

\* the rows SELECT ... FROM launches WHERE ... returns (before they are put in
\* date_unix order and cut down to the six displayed columns)
FilterResult(table, start_date, end_date, rocket, status, launch_site) ==
    SelectWhere(table,
        {row \in BagToSet(table) :
            FilterWhere(row, start_date, end_date, rocket, status, launch_site)})

\* SUM(CASE WHEN ... THEN 1 ELSE 0 END) FROM launches: NULL over no rows
SumCase(table, ones) ==
    IF BagToSet(table) = {} THEN None
    ELSE Some(BagCardinality(SelectWhere(table, ones)))

\* successful or 0
OrZero(x) == IF x = None THEN 0 ELSE x[1]

\* round(n / d * 100, 2) in hundredths of a percent: the integer nearest to
\* 10000 * n / d, an exact half going to the even neighbour
RoundRate(n, d) ==
    LET q == (10000 * n) \div d
        twice == 2 * ((10000 * n) % d)
    IN  IF twice < d THEN q
        ELSE IF twice > d THEN q + 1
        ELSE IF q % 2 = 0 THEN q ELSE q + 1

\* every launch with a known outcome is counted as successful
IsSuccessfulOrFailed(row) == row.success # NULL

\* lines 219-226: SUM(CASE WHEN success = 1 THEN 1 ELSE 0 END) as successful
SuccessfulCase(row) == row.success = "1"

\* lines 214-226 and 289-294 of get_launch_statistics (success_rate in
\* hundredths of a percent)
StatisticsOf(table) ==
    LET total == BagCardinality(table)
        rows == BagToSet(table)
        successful == SumCase(table, {row \in rows : SuccessfulCase(row)})
        failed == SumCase(table, {row \in rows : row.success = "0"})
        pending == SumCase(table, {row \in rows : row.success = NULL})
    IN  [total |-> total,
         successful |-> OrZero(successful),
         failed |-> OrZero(failed),
         pending |-> OrZero(pending),
         success_rate |-> IF total > 0 THEN RoundRate(OrZero(successful), total) ELSE 0]

\* the NULL group is reported like any other
RocketNamesWithNull(table) == {row.rocket_name : row \in BagToSet(table)}

\* lines 250-251 and 264-265: WHERE rocket_name IS NOT NULL GROUP BY rocket_name
RocketNames(table) == {row.rocket_name : row \in BagToSet(table)} \ {NULL}

\* the rows of one group
RocketGroup(table, rocket_name) ==
    SelectWhere(table, {row \in BagToSet(table) : row.rocket_name = rocket_name})

\* line 248: COUNT(*) of one group
RocketCount(table, rocket_name) == BagCardinality(RocketGroup(table, rocket_name))

\* line 252: ORDER BY count DESC names no second key, so groups of equal count
\* may come in any order: every arrangement of the groups with counts descending
ByRocketOrders(table) ==
    {order \in [1..Cardinality(RocketNames(table)) -> RocketNames(table)] :
        /\ \A i, j \in DOMAIN order : i # j => order[i] # order[j]
        /\ \A i, j \in DOMAIN order :
                i < j => RocketCount(table, order[i]) >= RocketCount(table, order[j])}

\* lines 247-254: the (rocket_name, count) tuples of cursor.fetchall()
ByRocket(table, order) ==
    [i \in DOMAIN order |-> <<order[i], RocketCount(table, order[i])>>]

\* lines 257-275: rocket_name -> {successful, failed, pending}
ByRocketSuccess(table) ==
    [rocket_name \in RocketNames(table) |->
        LET group == RocketGroup(table, rocket_name)
            rows == BagToSet(group)
        IN  [successful |-> SumCase(group, {row \in rows : row.success = "1"})[1],
             failed |-> SumCase(group, {row \in rows : row.success = "0"})[1],
             pending |-> SumCase(group, {row \in rows : row.success = NULL})[1]]]

\* the call before this one wrote a whole batch into an empty table and stamped
\* it (the table and the remote are still as that call left them)
FirstSyncCall(c) ==
    /\ c.op = "fetch_launches"
    /\ c.was_empty
    /\ c.phase = "done"

get_launch_statistics ==
    /\ \E order \in ByRocketOrders(launches) :
        call' = [op |-> "get_launch_statistics",
                 after_first_sync |-> FirstSyncCall(call),
                 result |-> StatisticsOf(launches)
                                @@ [by_rocket |-> ByRocket(launches, order),
                                    by_rocket_success |-> ByRocketSuccess(launches)]]
    /\ UNCHANGED <<launches, cache_metadata, now, dbLocked, env, inflight>>

filter_launches(start_date, end_date, rocket, status, launch_site) ==
    /\ call' = [op |-> "filter_launches",
                start_date |-> start_date, end_date |-> end_date,
                rocket |-> rocket, status |-> status, launch_site |-> launch_site,
                result |-> FilterResult(launches, start_date, end_date, rocket,
                                        status, launch_site)]
    /\ UNCHANGED <<launches, cache_metadata, now, dbLocked, env, inflight>>

\* the arguments the filter form can send (app.py lines 303-313)
StartArgs == {None, Some(0), Some(2)}
EndArgs == {None, Some(0), Some(1)}
RocketArgs == {NULL, "All", "Falcon 9"}
StatusArgs == {"All", "Success", "Failed", "Pending"}
SiteArgs == {"All", "KSC"}

\* the table after one successful sync, and after a second one
QueryBatches == SeqsUpTo(AcceptedLaunches, MaxBatch)
SyncedTable(table, batch, rockets) ==
    ExecuteBatch(table, batch, 1, RefDict(rockets), RefDict(PadsV1), FALSE).table
QueryTables ==
    {SyncedTable(SyncedTable(EmptyTable, b1, r1), b2, r2) :
        b1 \in QueryBatches, b2 \in QueryBatches,
        r1 \in {RocketsV1}, r2 \in {RocketsV1, RocketsV2}}

\* a store left by two successful syncs in the first hour
InitQuery ==
    /\ launches \in {t \in QueryTables : BagCardinality(t) <= MaxRows}
    /\ cache_metadata = update_cache_metadata({}, "launches", 0)
    /\ now = 0
    /\ dbLocked = FALSE
    /\ env = Unsettled
    /\ call = NoCall
    /\ inflight = NoFrames

NextQuery ==
    \/ get_launch_statistics
    \/ \E start_date \in StartArgs, end_date \in EndArgs, rocket \in RocketArgs,
          status \in StatusArgs, launch_site \in SiteArgs :
            filter_launches(start_date, end_date, rocket, status, launch_site)

SpecQuery == InitQuery /\ [][NextQuery]_vars

\* Syncs against a remote whose three endpoints answer, with statistics read
\* between them
HealthyEnvs == NominalEnvs \cup RenamedEnvs

RemoteSettlesHealthy ==
    /\ ~env.settled
    /\ env' \in HealthyEnvs
    /\ call' = NoCall
    /\ UNCHANGED <<launches, cache_metadata, now, dbLocked, inflight>>

NextSyncRead ==
    \/ \E force_refresh \in BOOLEAN : fetch_launches(force_refresh)
    \/ get_launch_statistics
    \/ CollectGarbage
    \/ RemoteDrifts
    \/ RemoteSettlesHealthy

SpecSyncRead == Init /\ [][NextSyncRead]_vars

\* SpaceXTracker(db_path) on the database file that exists already: both CREATE
\* TABLE IF NOT EXISTS statements find their table.  When the file cannot be
\* opened, connect raises inside the try and the finally clause reads the
\* unbound conn.
init_database ==
    /\ call' = [op |-> "_init_database",
                outcome |-> IF env.settled /\ env.storage = "unavailable"
                            THEN "raised" ELSE "returned"]
    /\ UNCHANGED <<launches, cache_metadata, now, dbLocked, env, inflight>>

\* remotes that list fewer launches than before, rename the rockets, send a
\* record the loop rejects, fail on the network, or meet a failing disk
LifecycleBatches ==
    FewBatches \cup {<<LB>>, <<LNullId>>, <<LNoId>>, <<LA, LNullName>>}
LifecycleEnvs ==
    {Env(Ok(b), Ok(RocketsV1), Ok(PadsV1), "ok") : b \in LifecycleBatches}
        \cup RenamedEnvs
        \cup {Env(Ok(<<LB>>), Ok(RocketsV2), Ok(PadsV1), "ok")}
        \cup StorageEnvs
        \cup {Env(l, Ok(RocketsV1), Ok(PadsV1), "ok") : l \in Faulty(<<LA2, LB>>)}
        \cup {Env(Ok(<<LA2, LB>>), r, Ok(PadsV1), "ok") : r \in Faulty(RocketsV1)}

RemoteSettlesLifecycle ==
    /\ ~env.settled
    /\ env' \in LifecycleEnvs
    /\ call' = NoCall
    /\ UNCHANGED <<launches, cache_metadata, now, dbLocked, inflight>>

\* Every operation on the store: syncs that succeed or fail, the reads, and the
\* schema initialisation run again
NextLifecycle ==
    \/ \E force_refresh \in BOOLEAN : fetch_launches(force_refresh)
    \/ Tick
    \/ CollectGarbage
    \/ RemoteDrifts
    \/ RemoteSettlesLifecycle
    \/ get_launch_statistics
    \/ \E status \in StatusArgs : filter_launches(None, None, "All", status, "All")
    \/ init_database

SpecLifecycle == Init /\ [][NextLifecycle]_vars

-----------------------------------------------------------------------------
(* Two calls of fetch_launches(force_refresh=True) running at the same time, *)
(* each on its own connections.  SQLite lets one connection write at a time: *)
(* a second writer waits for the lock, and gives up with "database is locked" *)
(* when the wait outlasts the busy timeout.                                  *)

Callers == {1, 2}

\* the frame of a call: where it stands, its locals launches, rockets and
\* launchpads, and what it returned
Frame(pc) ==
    [pc |-> pc, launches |-> <<>>, rockets |-> <<>>, launchpads |-> <<>>,
     result |-> "pending"]

\* the states the remote passes through while the calls run
RaceEnvs ==
    {Env(Ok(<<LA>>), Ok(RocketsV1), Ok(PadsV1), "ok"),
     Env(Ok(<<LA2, LB>>), Ok(RocketsV1), Ok(PadsV1), "ok"),
     Env(Ok(<<LB>>), Ok(RocketsV2), Ok(PadsV1), "ok")}

\* lines 167-188 ran and line 190 has not: the connection holds the write lock
HoldsWriteLock(frame) == frame.pc = "inserted" /\ Len(frame.launches) > 0

\* another call's connection holds the write lock
WriteLockedFor(p) == \E q \in Callers \ {p} : HoldsWriteLock(inflight[q])

\* the table once the frame's batch is committed
CommittedBatch(table, frame) ==
    ExecuteBatch(table, frame.launches, 1, RefDict(frame.rockets),
                 RefDict(frame.launchpads), FALSE).table

\* lines 146-148
GetLaunches(p) ==
    /\ inflight[p].pc = "called"
    /\ inflight' = [inflight EXCEPT ![p].pc = "got_launches",
                                    ![p].launches = env.launches.data]
    /\ call' = [call EXCEPT !.fetch_order = Append(@, p)]
    /\ UNCHANGED <<launches, cache_metadata, now, dbLocked, env>>

\* lines 157-158
GetRockets(p) ==
    /\ inflight[p].pc = "got_launches"
    /\ inflight' = [inflight EXCEPT ![p].pc = "got_rockets",
                                    ![p].rockets = env.rockets.data]
    /\ UNCHANGED <<launches, cache_metadata, now, dbLocked, env, call>>

\* lines 161-162
GetLaunchpads(p) ==
    /\ inflight[p].pc = "got_rockets"
    /\ inflight' = [inflight EXCEPT ![p].pc = "got_launchpads",
                                    ![p].launchpads = env.launchpads.data]
    /\ UNCHANGED <<launches, cache_metadata, now, dbLocked, env, call>>

\* lines 164-188: the first INSERT takes the write lock, the rows stay uncommitted
InsertRows(p) ==
    /\ inflight[p].pc = "got_launchpads"
    /\ ~WriteLockedFor(p)
    /\ inflight' = [inflight EXCEPT ![p].pc = "inserted"]
    /\ UNCHANGED <<launches, cache_metadata, now, dbLocked, env, call>>

\* lines 190-191
Commit(p) ==
    /\ inflight[p].pc = "inserted"
    /\ launches' = CommittedBatch(launches, inflight[p])
    /\ inflight' = [inflight EXCEPT ![p].pc = "committed"]
    /\ UNCHANGED <<cache_metadata, now, dbLocked, env, call>>

\* lines 193-195
Stamp(p) ==
    /\ inflight[p].pc = "committed"
    /\ ~WriteLockedFor(p)
    /\ cache_metadata' = update_cache_metadata(cache_metadata, "launches", now)
    /\ inflight' = [inflight EXCEPT ![p].pc = "returned", ![p].result = "True"]
    /\ UNCHANGED <<launches, now, dbLocked, env, call>>

\* the INSERT of line 168 or of line 105 waited for the lock longer than the busy
\* timeout: sqlite3.OperationalError, caught at lines 201-203
BusyTimeout(p) ==
    /\ inflight[p].pc \in {"got_launchpads", "committed"}
    /\ WriteLockedFor(p)
    /\ inflight' = [inflight EXCEPT ![p].pc = "returned", ![p].result = "False"]
    /\ UNCHANGED <<launches, cache_metadata, now, dbLocked, env, call>>

\* the remote changes while a call still has something to fetch
RemoteChanges ==
    /\ \E p \in Callers : inflight[p].pc \in {"called", "got_launches", "got_rockets"}
    /\ env' \in RaceEnvs \ {env}
    /\ UNCHANGED <<launches, cache_metadata, now, dbLocked, call, inflight>>

\* the stores the two calls start on: a new database, or one synced before
RaceStarts ==
    {[launches |-> EmptyTable, cache_metadata |-> {}],
     [launches |-> SyncedTable(EmptyTable, <<LA, LB>>, RocketsV1),
      cache_metadata |-> update_cache_metadata({}, "launches", 0)]}

InitRace ==
    /\ \E start \in RaceStarts :
        /\ launches = start.launches
        /\ cache_metadata = start.cache_metadata
        /\ call = [op |-> "race", start |-> start.launches, fetch_order |-> <<>>]
    /\ now = 0
    /\ dbLocked = FALSE
    /\ env \in RaceEnvs
    /\ inflight = [p \in Callers |-> Frame("called")]

NextRace ==
    \/ \E p \in Callers : GetLaunches(p)
    \/ \E p \in Callers : GetRockets(p)
    \/ \E p \in Callers : GetLaunchpads(p)
    \/ \E p \in Callers : InsertRows(p)
    \/ \E p \in Callers : Commit(p)
    \/ \E p \in Callers : Stamp(p)
    \/ \E p \in Callers : BusyTimeout(p)
    \/ RemoteChanges

SpecRace == InitRace /\ [][NextRace]_vars

-----------------------------------------------------------------------------
(* Steps and vocabulary of the properties *)

\* this step is a call of fetch_launches (Tick moves the clock, the remote
\* steps change env, CollectGarbage releases the lock)
FetchStep ==
    /\ call'.op = "fetch_launches"
    /\ now' = now
    /\ env' = env
    /\ dbLocked => dbLocked'

Endpoints == <<"launches", "rockets", "launchpads">>

\* a fetch that fails: timeout, non-2xx status, or malformed body
FetchFails(resp) ==
    \/ resp.kind = "timeout"
    \/ resp.status < 200
    \/ resp.status > 299
    \/ ~resp.parses

\* one of the requests the call issued met a failing fetch
FetchedAndFailed(c, e) == \E k \in 1..c.requests : FetchFails(e[Endpoints[k]])

LastUpdatedShown(meta) == get_cache_last_updated(meta, "launches")

IsEmpty(table) == BagToSet(table) = {}

\* record id absent or null, or a date representation absent
LacksRequiredField(launch) ==
    \/ ~Has(launch, "id")
    \/ launch.id = NULL
    \/ ~Has(launch, "date_utc")
    \/ ~Has(launch, "date_unix")

SuccessfulForcedSync(c) ==
    /\ c.op = "fetch_launches"
    /\ c.force_refresh
    /\ c.outcome = "returned"
    /\ c.result = TRUE

SqliteErrors == {"sqlite3.OperationalError", "sqlite3.IntegrityError"}

\* a sqlite3 error met while writing the batch or while stamping
StorageFailure(c) ==
    /\ c.op = "fetch_launches"
    /\ c.phase \in {"write", "stamp"}
    /\ c.error \in SqliteErrors

-----------------------------------------------------------------------------
(* C1 *)

\* C1: when one of the three remote fetches fails (timeout, non-2xx status or
\* malformed body), fetch_launches returns False, the launches table is as it was
\* before the call and get_cache_last_updated("launches") is unchanged.
C1_FailedFetchAborts ==
    [][(FetchStep /\ FetchedAndFailed(call', env))
        => /\ call'.outcome = "returned"
           /\ call'.result = FALSE
           /\ launches' = launches
           /\ LastUpdatedShown(cache_metadata') = LastUpdatedShown(cache_metadata)]_vars

-----------------------------------------------------------------------------
(* C2 *)

\* C2: last_updated of "launches" changes only in a fetch_launches call in which
\* all three remote collections were fetched successfully and every row of the
\* batch was committed.
C2_StampOnlyOnFullSuccess ==
    [][(LastUpdatedShown(cache_metadata') # LastUpdatedShown(cache_metadata))
        => /\ FetchStep
           /\ call'.requests = 3
           /\ \A k \in 1..3 : ~FetchFails(env[Endpoints[k]])
           /\ call'.phase = "done"
           /\ \A i \in DOMAIN env.launches.data :
                \E r \in BagToSet(launches') : r.id = env.launches.data[i].id]_vars

-----------------------------------------------------------------------------
(* C3 *)

\* C3: whenever the launches table holds zero rows the freshness check reports a
\* refresh as due, so fetch_launches(force_refresh=False) on an empty store
\* always attempts the remote fetch.
C3_EmptyStoreIsDue ==
    [][(FetchStep /\ ~call'.force_refresh /\ IsEmpty(launches)
            /\ call'.outcome = "returned")
        => /\ call'.freshness = "due"
           /\ call'.requests >= 1]_vars

-----------------------------------------------------------------------------
(* C4 *)

\* C4: with force_refresh=False and a freshness check that says not due, the call
\* returns True, issues no remote request and leaves launches and cache_metadata
\* unchanged; with force_refresh=True the remote fetch is attempted whatever the
\* freshness check would say.
C4_FreshCacheSkipsFetch ==
    [][FetchStep
        => /\ (/\ ~call'.force_refresh
               /\ env.storage # "unavailable"
               /\ ~should_refresh_cache(cache_metadata, "launches",
                                        DefaultMaxAgeHours, now))
              => /\ call'.outcome = "returned"
                 /\ call'.result = TRUE
                 /\ call'.requests = 0
                 /\ launches' = launches
                 /\ cache_metadata' = cache_metadata
           /\ call'.force_refresh => call'.requests >= 1]_vars

\* a call answered from a fresh, non-empty cache without any request
C4_Witness ==
    /\ call.op = "fetch_launches"
    /\ ~call.force_refresh
    /\ ~call.was_due
    /\ call.result = TRUE
    /\ call.requests = 0
    /\ ~IsEmpty(launches)

-----------------------------------------------------------------------------
(* C5 *)

\* C5: two successful forced syncs against an unchanged remote leave the same
\* launches table as the first of them alone.
C5_UpsertIdempotent ==
    [][(FetchStep /\ SuccessfulForcedSync(call) /\ SuccessfulForcedSync(call'))
        => launches' = launches]_vars

-----------------------------------------------------------------------------
(* C6 *)

\* C6: after a fetch_launches call that was due and failed, the next
\* fetch_launches(force_refresh=False) call, at the same or a later clock, issues
\* the remote fetch again instead of returning from the fresh-cache path.
C6_FailedSyncIsRetried ==
    (/\ call.op = "fetch_launches"
     /\ call.retry
     /\ ~call.force_refresh
     /\ call.outcome = "returned")
    => (call.freshness = "due" /\ call.requests >= 1)

\* a retry of a failed sync over a store that was stamped more than a day ago
C6_Witness ==
    /\ call.op = "fetch_launches"
    /\ call.retry
    /\ ~call.force_refresh
    /\ call.requests >= 1
    /\ cache_metadata # {}
    /\ now > 0

-----------------------------------------------------------------------------
(* C7 *)

\* C7: if a record of the fetched launch collection lacks a required field (id
\* absent or null, or a date representation absent), fetch_launches returns False,
\* no row of the batch becomes visible in launches and last_updated is not stamped.
C7_MalformedRecordAbortsBatch ==
    [][(/\ FetchStep
        /\ call'.requests >= 1
        /\ ~FetchFails(env.launches)
        /\ \E i \in DOMAIN env.launches.data :
                LacksRequiredField(env.launches.data[i]))
        => /\ call'.outcome = "returned"
           /\ call'.result = FALSE
           /\ launches' = launches
           /\ cache_metadata' = cache_metadata]_vars

-----------------------------------------------------------------------------
(* C8 *)

\* C8: a local storage failure while the batch is written or the stamp is set
\* is propagated to the caller as an error, not turned into a False return value.
C8_StorageErrorPropagates ==
    StorageFailure(call) => call.outcome = "raised"

\* C8, as the code has it: a sqlite3 error met while the batch is written or the
\* stamp is set is caught; fetch_launches returns False and last_updated is
\* unchanged.  No partial write is visible: if the error came while writing, the
\* table is as before the call; if it came while stamping, every record of the
\* batch has its row.
C8_StorageErrorReturnsFalse ==
    [][(FetchStep /\ StorageFailure(call'))
        => /\ call'.outcome = "returned"
           /\ call'.result = FALSE
           /\ cache_metadata' = cache_metadata
           /\ call'.phase = "write" => launches' = launches
           /\ call'.phase = "stamp" =>
                \A i \in DOMAIN env.launches.data :
                    \E r \in BagToSet(launches') : r.id = env.launches.data[i].id]_vars

\* the second record was rejected by the schema after the first was executed:
\* the call returned False and the first row is not in the table
C8_Witness ==
    /\ StorageFailure(call)
    /\ call.error = "sqlite3.IntegrityError"
    /\ call.result = FALSE
    /\ env.launches.data = <<LA, LNullName>>
    /\ IsEmpty(launches)
    /\ dbLocked

-----------------------------------------------------------------------------
(* C9 *)

\* a predicate is supplied unless it is None or, for the three choices, "All"
MeetsSupplied(row, c) ==
    /\ c.start_date # None => row.date_unix >= c.start_date[1]
    /\ c.end_date # None => row.date_unix <= c.end_date[1]
    /\ c.rocket \notin {NULL, "All"} => row.rocket_name = c.rocket
    /\ c.status \notin {NULL, "All"} => StatusText(row) = c.status
    /\ c.launch_site \notin {NULL, "All"} => row.launchpad_name = c.launch_site

\* C9: filter_launches returns exactly the rows of the table that satisfy every
\* supplied predicate (inclusive epoch bounds, rocket name, outcome, site name);
\* a predicate that is not supplied constrains nothing.
C9_FilterReturnsExactlyMatches ==
    call.op = "filter_launches"
    => call.result = SelectWhere(launches,
                                 {row \in BagToSet(launches) : MeetsSupplied(row, call)})

-----------------------------------------------------------------------------
(* C10 *)

\* C10: success_rate is successful / total * 100 rounded to 2 decimal places,
\* successful being the number of rows whose success flag is true, and 0 when the
\* table is empty.  (rate, in hundredths of a percent, is the integer nearest to
\* 10000 * successful / total.)
C10_SuccessRate ==
    call.op = "get_launch_statistics"
    => LET total == BagCardinality(launches)
           successful == BagCardinality(SelectWhere(launches,
                            {row \in BagToSet(launches) : row.success = "1"}))
           rate == call.result.success_rate
       IN  /\ total = 0 => rate = 0
           /\ total > 0 =>
                /\ 2 * (rate * total - 10000 * successful) <= total
                /\ 2 * (10000 * successful - rate * total) <= total

\* statistics of a table with a successful, a failed and a pending launch
C10_Witness ==
    /\ call.op = "get_launch_statistics"
    /\ call.result.total = 3
    /\ call.result.successful = 1
    /\ call.result.pending = 1
    /\ call.result.success_rate = 3333

-----------------------------------------------------------------------------
(* C11 *)

RECURSIVE SumOfCounts(_, _)
SumOfCounts(by_rocket, i) ==
    IF i > Len(by_rocket) THEN 0 ELSE by_rocket[i][2] + SumOfCounts(by_rocket, i + 1)

\* each vehicle's successful + failed + pending is its count in by_rocket
OutcomesSumToCount(result) ==
    /\ DOMAIN result.by_rocket_success
            = {result.by_rocket[i][1] : i \in DOMAIN result.by_rocket}
    /\ \A i \in DOMAIN result.by_rocket :
        LET o == result.by_rocket_success[result.by_rocket[i][1]]
        IN  o.successful + o.failed + o.pending = result.by_rocket[i][2]

NamedRows(table) == {row \in BagToSet(table) : row.rocket_name # NULL}

\* C11 as stated: by_rocket has one entry per distinct vehicle, the counts sum
\* to the number N of records in the store, and each vehicle's outcome counts sum
\* to its count.
C11_ByRocketSumsToTotal ==
    call.op = "get_launch_statistics"
    => /\ Len(call.result.by_rocket)
            = Cardinality({row.rocket_name : row \in NamedRows(launches)})
       /\ SumOfCounts(call.result.by_rocket, 1) = BagCardinality(launches)
       /\ OutcomesSumToCount(call.result)

\* C11: by_rocket has exactly one entry for each distinct non-null rocket_name,
\* its counts sum to the number of rows whose rocket_name is not null, and for
\* each vehicle successful + failed + pending of by_rocket_success is that
\* vehicle's count in by_rocket.
C11_ByRocketCoversNamedRows ==
    call.op = "get_launch_statistics"
    => /\ Len(call.result.by_rocket)
            = Cardinality({row.rocket_name : row \in NamedRows(launches)})
       /\ \A i, j \in DOMAIN call.result.by_rocket :
            i # j => call.result.by_rocket[i][1] # call.result.by_rocket[j][1]
       /\ SumOfCounts(call.result.by_rocket, 1)
            = BagCardinality(SelectWhere(launches, NamedRows(launches)))
       /\ OutcomesSumToCount(call.result)

\* statistics of a store holding launches of two vehicles and one launch whose
\* rocket id resolved to no name
C11_Witness ==
    /\ call.op = "get_launch_statistics"
    /\ call.result.total = 3
    /\ Len(call.result.by_rocket) = 2
    /\ SumOfCounts(call.result.by_rocket, 1) = 2

-----------------------------------------------------------------------------
(* C12 *)

\* the records of a remote collection whose raw success flag is one of flags
RecordsFlagged(data, flags) == {i \in DOMAIN data : Get(data[i], "success") \in flags}

\* the records no later record of the collection replaces: a record is replaced
\* by a later one with the same id, unless the id is null
RecordsKept(data) ==
    {i \in DOMAIN data :
        data[i].id = NULL \/ \A j \in DOMAIN data : j > i => data[j].id # data[i].id}

\* C12 as stated: after a successful sync into an empty store, successful is the
\* number of remote records with success = true, failed the number with
\* success = false, pending the number with success absent or null, and
\* successful + failed + pending = total.
C12_CountsFollowRemoteFlags ==
    (call.op = "get_launch_statistics" /\ call.after_first_sync)
    => LET data == env.launches.data
           r == call.result
       IN  /\ r.successful = Cardinality(RecordsFlagged(data, {"true"}))
           /\ r.failed = Cardinality(RecordsFlagged(data, {"false"}))
           /\ r.pending = Cardinality(RecordsFlagged(data, {NULL}))
           /\ r.successful + r.failed + r.pending = r.total

\* C12: after a successful sync into an empty store the counts follow the raw
\* flag of the remote records the store keeps, a record being dropped when a later
\* record of the collection has the same non-null id: successful counts those with
\* success = true, failed those with success = false, pending those with success
\* absent or null, and successful + failed + pending = total.
C12_CountsFollowKeptFlags ==
    (call.op = "get_launch_statistics" /\ call.after_first_sync)
    => LET data == env.launches.data
           r == call.result
       IN  /\ r.successful = Cardinality(RecordsFlagged(data, {"true"}) \cap RecordsKept(data))
           /\ r.failed = Cardinality(RecordsFlagged(data, {"false"}) \cap RecordsKept(data))
           /\ r.pending = Cardinality(RecordsFlagged(data, {NULL}) \cap RecordsKept(data))
           /\ r.successful + r.failed + r.pending = r.total

\* statistics read right after the first sync of a collection with one successful
\* launch and one whose success key is missing
C12_Witness ==
    /\ call.op = "get_launch_statistics"
    /\ call.after_first_sync
    /\ env.launches.data = <<LA2, LB>>
    /\ call.result.successful = 1
    /\ call.result.pending = 1
    /\ call.result.total = 2

-----------------------------------------------------------------------------
(* C13 *)

\* C13: for a non-empty store the freshness check says due exactly when no
\* cache_metadata row exists for "launches" or now - last_updated is strictly
\* greater than 24 hours; a cache aged exactly 24 hours, or less, is not due.
C13_DueExactlyWhenOlderThanMaxAge ==
    [][(/\ FetchStep
        /\ ~call'.force_refresh
        /\ env.storage # "unavailable"
        /\ ~IsEmpty(launches))
        => /\ call'.freshness \in {"due", "fresh"}
           /\ call'.freshness = "due"
                <=> \/ LastUpdatedShown(cache_metadata) = <<>>
                    \/ now - LastUpdatedShown(cache_metadata)[1] > DefaultMaxAgeHours]_vars

\* a call on a non-empty store stamped exactly 24 hours ago, found fresh
C13_Witness ==
    /\ call.op = "fetch_launches"
    /\ ~call.force_refresh
    /\ call.freshness = "fresh"
    /\ ~IsEmpty(launches)
    /\ LastUpdatedShown(cache_metadata) # <<>>
    /\ now - LastUpdatedShown(cache_metadata)[1] = DefaultMaxAgeHours

-----------------------------------------------------------------------------
(* C14 *)

\* the vehicle names of the catalogue in ascending string order
NamesAscending == <<"Falcon 1", "Falcon 9", "Falcon Heavy">>

NameRank(rocket_name) == CHOOSE i \in DOMAIN NamesAscending : NamesAscending[i] = rocket_name

\* C14: by_rocket is ordered by count descending and, among vehicles of equal
\* count, by vehicle name ascending, so that it is a function of the store
\* contents alone.
C14_ByRocketOrderIsDetermined ==
    call.op = "get_launch_statistics"
    => \A i, j \in DOMAIN call.result.by_rocket :
        i < j =>
            LET a == call.result.by_rocket[i]
                b == call.result.by_rocket[j]
            IN  \/ a[2] > b[2]
                \/ a[2] = b[2] /\ NameRank(a[1]) < NameRank(b[1])

-----------------------------------------------------------------------------
(* C15 *)

\* a forced sync that found the table empty and succeeded
FirstForcedSyncStep ==
    /\ FetchStep
    /\ call'.force_refresh
    /\ IsEmpty(launches)
    /\ call'.outcome = "returned"
    /\ call'.result = TRUE

\* C15 as stated: after fetch_launches(force_refresh=True) succeeds on an empty
\* store the number of rows equals the number of records of the remote collection.
C15_RowsEqualRecords ==
    [][FirstForcedSyncStep
        => BagCardinality(launches') = Len(env.launches.data)]_vars

\* C15: after fetch_launches(force_refresh=True) succeeds on an empty store the
\* number of rows equals the number of records of the remote collection that no
\* later record of the collection replaces (a later record with the same non-null
\* id replaces an earlier one).
C15_RowsEqualKeptRecords ==
    [][FirstForcedSyncStep
        => BagCardinality(launches') = Cardinality(RecordsKept(env.launches.data))]_vars

\* the first sync of a collection that lists launch A twice leaves one row
C15_Witness ==
    /\ call.op = "fetch_launches"
    /\ call.force_refresh
    /\ call.was_empty
    /\ call.result = TRUE
    /\ env.launches.data = <<LA, LA2>>
    /\ BagCardinality(launches) = 1

-----------------------------------------------------------------------------
(* C16 *)

\* no two rows of the table carry the same id
OneRowPerId(table) ==
    /\ \A r \in BagToSet(table) : table[r] = 1
    /\ \A r1, r2 \in BagToSet(table) : r1.id = r2.id => r1 = r2

\* a sync that wrote its whole batch and stamped it
SuccessfulSyncStep ==
    /\ FetchStep
    /\ call'.phase = "done"

\* the row the table holds for the record is the one built from that record and
\* from the reference collections of the same sync
RowIsFromBatch(table, e, i) ==
    \A r \in BagToSet(table) :
        r.id = e.launches.data[i].id
            => r = MakeRow(e.launches.data[i], RefDict(e.rockets.data),
                           RefDict(e.launchpads.data))

\* C16: in every reachable state the launches table holds at most one row per
\* id, and after a successful sync whose batch contains id X every field of row X
\* is the value derived from that batch.
C16_OneRowPerIdFullyReplaced ==
    [][/\ OneRowPerId(launches')
       /\ SuccessfulSyncStep
            => \A i \in RecordsKept(env.launches.data) :
                /\ \E r \in BagToSet(launches') : r.id = env.launches.data[i].id
                /\ RowIsFromBatch(launches', env, i)]_vars

-----------------------------------------------------------------------------
(* C17 *)

Ids(table) == {r.id : r \in BagToSet(table)}

\* C17: whatever the operation (a sync that succeeds or fails, a filtered query,
\* the statistics, the schema initialisation run again), every id present in the
\* launches table is still present afterwards, and the cache_metadata row of
\* "launches", once created, is still there.
C17_NothingIsDeleted ==
    [][/\ Ids(launches) \subseteq Ids(launches')
       /\ LastUpdatedShown(cache_metadata) # <<>>
            => LastUpdatedShown(cache_metadata') # <<>>]_vars

\* launch B is still stored after a successful sync of a collection that no
\* longer lists it
C17_Witness ==
    /\ call.op = "fetch_launches"
    /\ call.phase = "done"
    /\ env.launches.data = <<LA>>
    /\ Ids(launches) = {"A", "B"}

-----------------------------------------------------------------------------
(* C18 *)

BothReturned == \A p \in Callers : inflight[p].pc = "returned"

\* the table left by the two calls run one after the other, first then second,
\* each writing what it fetched
RunOneAfterTheOther(first, second) ==
    CommittedBatch(CommittedBatch(call.start, inflight[first]), inflight[second])

\* the row the frame's batch gives to an id it lists
RowsOfFrame(frame) ==
    {MakeRow(frame.launches[i], RefDict(frame.rockets), RefDict(frame.launchpads)) :
        i \in RecordsKept(frame.launches)}

\* C18: for every interleaving of two concurrent fetch_launches(force_refresh=True)
\* calls against a remote that may change between their fetches, the final
\* launches table and last_updated are those of the two calls run one after the
\* other in some order, and the row kept for each id comes from the snapshot
\* fetched later.
C18_RaceIsSerializable ==
    (call.op = "race" /\ BothReturned)
    => /\ \/ launches = RunOneAfterTheOther(1, 2)
          \/ launches = RunOneAfterTheOther(2, 1)
       /\ LastUpdatedShown(cache_metadata) = <<now>>
       /\ LET later == inflight[call.fetch_order[2]]
          IN  \A r \in BagToSet(launches) :
                (\E i \in DOMAIN later.launches : later.launches[i].id = r.id)
                    => r \in RowsOfFrame(later)

-----------------------------------------------------------------------------
(* C19 *)

\* C19: after any sequence of successful and failed syncs against a remote whose
\* collections may change between syncs, two rows of launches with the same
\* rocket_id have the same rocket_name, and two rows with the same launchpad_id
\* have the same launchpad_name.
C19_NamesConsistentAcrossRows ==
    \A r1, r2 \in BagToSet(launches) :
        /\ r1.rocket_id = r2.rocket_id => r1.rocket_name = r2.rocket_name
        /\ r1.launchpad_id = r2.launchpad_id => r1.launchpad_name = r2.launchpad_name

====
